---- MODULE Spec2Model ----
(***************************************************************************)
(* LyrixChat (src/app.py): the /chat request handler and the query         *)
(* resolution pipeline behind it: get_enhanced_query, search_and_judge,    *)
(* scrape_lyrics, search_spotify_track and handle_chat.                    *)
(*                                                                         *)
(* Strings are sequences of one-character strings.  The three external     *)
(* services (Gemini, Genius, Spotify) and the lyrics page are the          *)
(* environment: every call draws its outcome from a bounded set.           *)
(***************************************************************************)
EXTENDS Integers, Sequences, FiniteSets, TLC

VARIABLES init_failure, sp, gemini_model, pc, form_message, message, enhanced_query,
          pending, cur, candidate_hits, last_seen, searchLog, lastReply,
          best_index, genius_data, candidates, page_kind, lyrics, payload,
          calls

vars == <<init_failure, sp, gemini_model, pc, form_message, message, enhanced_query,
          pending, cur, candidate_hits, last_seen, searchLog, lastReply,
          best_index, genius_data, candidates, page_kind, lyrics, payload,
          calls>>

(***************************************************************************)
(* sp, gemini_model: the two module-level client handles.  pc: where the   *)
(* current request stands.  message, enhanced_query, genius_data, lyrics,  *)
(* payload: the locals of handle_chat; pending, candidate_hits,            *)
(* candidates, best_index: those of search_and_judge.                      *)
(* History kept beside them: init_failure (which constructor failed at     *)
(* import), form_message (the text as submitted), cur and searchLog (what  *)
(* each search term received and stored, kept while the loop runs),        *)
(* last_seen (the result of the latest assignment for each URL),           *)
(* lastReply (the reply the judge got), page_kind (what the page fetch     *)
(* did) and calls (the external calls of the request, in order).           *)
(***************************************************************************)

(* ---------------- bounds of the model ---------------- *)

\* longest text typed by the user or returned by the enhancement call
MaxText == 2
\* longest hit list of a Genius response
MaxResponse == 6
\* longest inner HTML of the lyrics container
MaxHtml == 2

(* ---------------- program constants ---------------- *)

\* data.get('response', {}).get('hits', [])[:5]
HitCap == 5

None == "None"

(* ---------------- strings ---------------- *)

SeqsUpTo(S, n) == UNION {[1..k -> S] : k \in 0..n}

TextAlphabet == {" ", "a"}
Texts == SeqsUpTo(TextAlphabet, MaxText)

IsSpace(c) == c \in {" ", "\n"}

RECURSIVE LStrip(_)
LStrip(s) == IF s # <<>> /\ IsSpace(Head(s)) THEN LStrip(Tail(s)) ELSE s

RECURSIVE RStrip(_)
RStrip(s) ==
    IF s # <<>> /\ IsSpace(s[Len(s)]) THEN RStrip(SubSeq(s, 1, Len(s) - 1)) ELSE s

\* a strip() that strips nothing
StripNothing(s) == s

\* str.strip()
Strip(s) == RStrip(LStrip(s))

(* ---------------- client initialisation ---------------- *)

InitFailures == {"none", "spotify", "genai"}

\* an initialisation that nulls only the client whose constructor failed
InitClientsSeparately(failure) ==
    [sp           |-> IF failure = "spotify" THEN None ELSE "client",
     gemini_model |-> IF failure = "genai" THEN None ELSE "client"]

\* the try/except around both constructors
InitClients(failure) ==
    IF failure = "none"
    THEN [sp |-> "client", gemini_model |-> "client"]
    ELSE [sp |-> None, gemini_model |-> None]

(* ---------------- exceptions ---------------- *)

\* the stages whose calls sit in a try with "except Exception"
TryBlocks == {"enhance", "search", "judge", "scrape", "spotify"}

\* an exception raised in the stage is caught there
Catches(stage) == stage \in TryBlocks

\* where the request goes on: an exception that nothing catches leaves
\* handle_chat
Continue(stage, raised, next) == IF raised /\ ~Catches(stage) THEN "crashed" ELSE next

(* ---------------- calls to the outside ---------------- *)

Call(svc, term) == [svc |-> svc, term |-> term]

NoPayload == [type |-> "none", title |-> None, artist |-> None, content |-> <<>>,
              spotify_url |-> None]
NoGenius  == [url |-> None, title |-> None, artist |-> None]
NoReply   == [raises |-> FALSE, text |-> <<>>]

ErrorPayload(content) ==
    [type |-> "error", title |-> None, artist |-> None, content |-> content,
     spotify_url |-> None]

PleaseEnter == <<"Please enter a message!">>
SorryFor(m) == <<"Sorry, I couldn't find a confident match for '">> \o m \o <<"'.">>

Init ==
    /\ init_failure \in InitFailures
    /\ sp = InitClients(init_failure).sp
    /\ gemini_model = InitClients(init_failure).gemini_model
    /\ pc = "idle"
    /\ form_message = <<>>
    /\ message = <<>>
    /\ enhanced_query = <<>>
    /\ pending = {}
    /\ cur = [term |-> <<>>, seen |-> 0, failed |-> FALSE, admitted |-> {},
              offered |-> {}]
    /\ candidate_hits = <<>>
    /\ last_seen = {}
    /\ searchLog = <<>>
    /\ lastReply = NoReply
    /\ best_index = 0
    /\ genius_data = NoGenius
    /\ candidates = <<>>
    /\ page_kind = "none"
    /\ lyrics = <<>>
    /\ payload = NoPayload
    /\ calls = <<>>

(* ---------------- handle_chat, entry ---------------- *)

\* message = request.form.get('message', '').strip(); if not message: return error
HandleChatBegin ==
    /\ pc = "idle"
    /\ \E m \in Texts :
          /\ form_message' = m
          /\ message' = Strip(m)
          /\ IF Strip(m) = <<>>
             THEN /\ payload' = ErrorPayload(PleaseEnter)
                  /\ pc' = "done"
             ELSE /\ payload' = payload
                  /\ pc' = "enhance"
    /\ UNCHANGED <<init_failure, sp, gemini_model, page_kind,
                   enhanced_query, pending, cur,
                   candidate_hits, last_seen, searchLog, lastReply, best_index,
                   genius_data, candidates, lyrics, calls>>

(* ---------------- get_enhanced_query ---------------- *)

\* what generate_content(prompt) can do: raise, or answer with some text
EnhanceOutcomes == {[raises |-> TRUE, text |-> <<>>]}
                   \cup {[raises |-> FALSE, text |-> t] : t \in Texts}

\* search_terms = {original_query, enhanced_query}
SearchTerms(original_query, enhanced) == {original_query, enhanced}

GetEnhancedQuery ==
    /\ pc = "enhance"
    /\ IF gemini_model = None
       THEN \* None.generate_content raises AttributeError: no call is made
            /\ enhanced_query' = message
            /\ calls' = calls
            /\ pc' = Continue("enhance", TRUE, "search_begin")
       ELSE \E o \in EnhanceOutcomes :
            /\ calls' = Append(calls, Call("gemini_enhance", <<>>))
            /\ enhanced_query' = IF o.raises THEN message ELSE Strip(o.text)
            /\ pc' = Continue("enhance", o.raises, "search_begin")
    /\ UNCHANGED <<init_failure, sp, gemini_model, page_kind,
                   form_message, message, pending, cur,
                   candidate_hits, last_seen, searchLog, lastReply, best_index,
                   genius_data, candidates, lyrics, payload>>

(* ---------------- search_and_judge: the search loop ---------------- *)

URLs == {"u1", "u2"}

\* one entry of data['response']['hits']; has_result = FALSE is an entry
\* without its 'result' key, artist = "NULL" is a null primary_artist
Hit(type, has_result, url, title, artist) ==
    [type |-> type, has_result |-> has_result, url |-> url, title |-> title,
     artist |-> artist]

SongHits == {Hit("song", TRUE, "u1", "t1", "A"), Hit("song", TRUE, "u1", "t2", "B"),
             Hit("song", TRUE, "u2", "t1", "A"), Hit("song", TRUE, "u2", "t2", "NULL")}

HitKinds == SongHits \cup {Hit("artist", TRUE, "u1", "t1", "A"),
                           Hit("song", TRUE, "", "t1", "A"),
                           Hit("song", FALSE, "", "", "")}

\* what one GET https://api.genius.com/search can do: fail (transport error,
\* non-2xx status), answer with a body that is not the expected JSON object,
\* or answer with a hit list
ResponseStatuses == {"http_error", "bad_json", "ok"}

\* hit['result'] as kept in candidate_hits
Result(hit) == [url |-> hit.url, title |-> hit.title, artist |-> hit.artist]

IndexOfUrl(ch, url) ==
    IF \E i \in 1..Len(ch) : ch[i].url = url
    THEN CHOOSE i \in 1..Len(ch) : ch[i].url = url
    ELSE 0

\* an assignment that keeps the value already stored under the key
UpsertFirstWins(ch, res) ==
    IF IndexOfUrl(ch, res.url) = 0 THEN Append(ch, res) ELSE ch

\* candidate_hits[url] = result, on an insertion-ordered dict
Upsert(ch, res) ==
    IF IndexOfUrl(ch, res.url) = 0
    THEN Append(ch, res)
    ELSE [ch EXCEPT ![IndexOfUrl(ch, res.url)] = res]

\* hits[:5]: the i-th entry of the list is iterated over
InSlice(i) == i <= HitCap

\* hit.get('type') == 'song' and hit['result'].get('url'), for an entry
\* that has its 'result'
Admits(hit) == hit.type = "song" /\ hit.url # ""

\* hit['result'] raises KeyError; "and" evaluates it for songs only
HitRaises(hit) == hit.type = "song" /\ ~hit.has_result

\* the record of one search term: how many entries of its hit list were
\* received so far (0 once the term is done), whether the except clause ran for it, the URLs the loop stored
\* for it, and the URLs of its entries that are songs with a URL among the
\* first five
TermRecord(term) ==
    [term |-> term, seen |-> 0, failed |-> FALSE, admitted |-> {}, offered |-> {}]

NoTerm == TermRecord(<<>>)

SearchBegin ==
    /\ pc = "search_begin"
    /\ pending' = SearchTerms(message, enhanced_query)
    /\ candidate_hits' = <<>>
    /\ searchLog' = <<>>
    /\ last_seen' = {}
    /\ cur' = NoTerm
    /\ pc' = "search"
    /\ UNCHANGED <<init_failure, sp, gemini_model, page_kind,
                   form_message, message, enhanced_query,
                   lastReply, best_index, genius_data, candidates, lyrics,
                   payload, calls>>

\* lines 77-83: the next term of "for term in search_terms" (a set of strings
\* iterates in no particular order) and its request
SearchRequest ==
    /\ pc = "search"
    /\ \E term \in pending :
          /\ pending' = pending \ {term}
          /\ IF term = <<>>
             THEN UNCHANGED <<pc, cur, searchLog, calls>>
             ELSE /\ calls' = Append(calls, Call("genius_search", term))
                  /\ \E status \in ResponseStatuses :
                        IF status = "ok"
                        THEN /\ cur' = TermRecord(term)
                             /\ pc' = "hits"
                             /\ searchLog' = searchLog
                        ELSE /\ cur' = NoTerm
                             /\ pc' = Continue("search", TRUE, "search")
                             /\ searchLog' = Append(searchLog,
                                    [TermRecord(term) EXCEPT !.failed = TRUE])
    /\ UNCHANGED <<init_failure, sp, gemini_model, page_kind,
                   form_message, message, enhanced_query,
                   candidate_hits, last_seen, lastReply, best_index, genius_data,
                   candidates, lyrics, payload>>

\* lines 84-88: the next entry of the hit list.  An entry outside the slice is
\* never looked at; an entry that raises ends the loop of this term in the
\* except clause, with what was stored before it still stored.
SearchHit ==
    /\ pc = "hits"
    /\ cur.seen < MaxResponse
    /\ \E hit \in HitKinds :
          LET i       == cur.seen + 1
              offered == IF i <= HitCap /\ hit.type = "song" /\ hit.has_result
                            /\ hit.url # ""
                         THEN cur.offered \cup {hit.url} ELSE cur.offered
              seen    == [cur EXCEPT !.seen = i, !.offered = offered]
          IN
          IF ~InSlice(i)
          THEN /\ cur' = seen
               /\ UNCHANGED <<pc, candidate_hits, last_seen, searchLog>>
          ELSE IF HitRaises(hit)
          THEN /\ searchLog' = Append(searchLog,
                                       [seen EXCEPT !.failed = TRUE, !.seen = 0])
               /\ cur' = NoTerm
               /\ pc' = Continue("search", TRUE, "search")
               /\ UNCHANGED <<candidate_hits, last_seen>>
          ELSE IF Admits(hit)
          THEN /\ candidate_hits' = Upsert(candidate_hits, Result(hit))
               /\ last_seen' = {r \in last_seen : r.url # hit.url} \cup {Result(hit)}
               /\ cur' = [seen EXCEPT !.admitted = @ \cup {hit.url}]
               /\ UNCHANGED <<pc, searchLog>>
          ELSE /\ cur' = seen
               /\ UNCHANGED <<pc, candidate_hits, last_seen, searchLog>>
    /\ UNCHANGED <<init_failure, sp, gemini_model, page_kind,
                   form_message, message, enhanced_query,
                   pending, lastReply, best_index, genius_data, candidates,
                   lyrics, payload, calls>>

\* the hit list has no more entries: the loop of this term ends normally
SearchHitsEnd ==
    /\ pc = "hits"
    /\ searchLog' = Append(searchLog, [cur EXCEPT !.seen = 0])
    /\ cur' = NoTerm
    /\ pc' = "search"
    /\ UNCHANGED <<init_failure, sp, gemini_model, page_kind,
                   form_message, message, enhanced_query,
                   pending, candidate_hits, last_seen, lastReply, best_index,
                   genius_data, candidates, lyrics, payload, calls>>

(* ---------------- search_and_judge: the judge ---------------- *)

\* The reply of the model is a sequence of tokens.  A token is a code fence,
\* a blank, or a whole JSON document: text that does not parse ("garbage"), a
\* document that is not an object ("array", "scalar"), an object without the
\* key ("nokey"), or the object {"best_match_index": value}, named after the
\* type of its value.  v is the value: the integer, 0/1 for false/true, twice
\* the number for a float (3 is 1.5), the digit inside a string.
Tok(kind, v) == [kind |-> kind, v |-> v]

FenceJson == Tok("fence_json", 0)
Fence     == Tok("fence", 0)
Blank     == Tok("blank", 0)

IndexValues == (0 - 1) .. (Cardinality(URLs) + 1)

Docs == {Tok("garbage", 0), Tok("array", 0), Tok("scalar", 1), Tok("nokey", 0),
         Tok("null", 0), Tok("bool", 0), Tok("bool", 1), Tok("float", 0),
         Tok("float", 2), Tok("float", 3), Tok("str", 1)}
        \cup {Tok("int", n) : n \in IndexValues}

ReplyTexts ==
    {<<>>, <<Blank>>}
    \cup UNION {{<<d>>, <<Blank, d, Blank>>, <<FenceJson, Blank, d, Blank, Fence>>,
                 <<Fence, d, Fence, Blank>>, <<d, Blank, d>>} : d \in Docs}

JudgeOutcomes == {[raises |-> TRUE, text |-> <<>>]}
                 \cup {[raises |-> FALSE, text |-> t] : t \in ReplyTexts}

StripBlanks(s) ==
    LET first == IF \E i \in 1..Len(s) : s[i] # Blank
                 THEN CHOOSE i \in 1..Len(s) :
                        s[i] # Blank /\ \A j \in 1..(i - 1) : s[j] = Blank
                 ELSE Len(s) + 1
        last  == IF \E i \in 1..Len(s) : s[i] # Blank
                 THEN CHOOSE i \in 1..Len(s) :
                        s[i] # Blank /\ \A j \in (i + 1)..Len(s) : s[j] = Blank
                 ELSE Len(s)
    IN SubSeq(s, first, last)

\* str.replace(tok, "")
Remove(s, tok) == SelectSeq(s, LAMBDA t : t # tok)

\* response.text.strip().replace("```json", "").replace("```", "").strip()
CleanedText(text) == StripBlanks(Remove(Remove(StripBlanks(text), FenceJson), Fence))

\* json.loads raises unless the text is exactly one document
ParseFails(cleaned) == Len(cleaned) # 1 \/ cleaned[1].kind = "garbage"

\* "if best_index" : the truth value Python gives the value of the key
Truthy(doc) ==
    CASE doc.kind \in {"nokey", "null"} -> FALSE
      [] doc.kind \in {"int", "bool", "float"} -> doc.v # 0
      [] OTHER -> TRUE

\* 1 <= best_index <= len(candidates), for the numeric kinds (a float is kept
\* as twice its value; True is 1)
InRange(doc, n) ==
    IF doc.kind = "float" THEN 2 <= doc.v /\ doc.v <= 2 * n
    ELSE 1 <= doc.v /\ doc.v <= n

\* lines 125-132: the index into candidates that the code goes on to use, 0
\* when it returns None.  Every exception is caught and gives None: a raising
\* call, json.loads, .get on a document that is not an object, <= between int
\* and str, a float used as a list index.
JudgeIndex(outcome, n) ==
    IF outcome.raises THEN 0
    ELSE LET cleaned == CleanedText(outcome.text) IN
         IF ParseFails(cleaned) THEN 0
         ELSE LET doc == cleaned[1] IN
              IF doc.kind \in {"array", "scalar"} THEN 0
              ELSE IF ~Truthy(doc) THEN 0
              ELSE IF doc.kind = "str" THEN 0
              ELSE IF ~InRange(doc, n) THEN 0
              ELSE IF doc.kind = "float" THEN 0
              ELSE doc.v

\* the try of the judge ends in its except clause
JudgeRaises(outcome, cands) ==
    \/ outcome.raises
    \/ LET cleaned == CleanedText(outcome.text) IN
       \/ ParseFails(cleaned)
       \/ LET doc == cleaned[1] IN
          \/ doc.kind \in {"array", "scalar"}
          \/ Truthy(doc) /\ doc.kind = "str"
          \/ Truthy(doc) /\ doc.kind = "float" /\ InRange(doc, Len(cands))
          \/ /\ JudgeIndex(outcome, Len(cands)) # 0
             /\ cands[JudgeIndex(outcome, Len(cands))].artist = "NULL"

\* candidates[best_index] in place of candidates[best_index - 1]
BestHitOffByOne(cands, k) == cands[IF k < Len(cands) THEN k + 1 ELSE 1]

\* best_hit = candidates[best_index - 1]
BestHit(cands, k) == cands[k]

\* line 135; best_hit.get('primary_artist', {}).get('name') raises on a null
\* primary_artist, and the except clause returns None
SelectedData(cands, k) ==
    IF k = 0 \/ BestHit(cands, k).artist = "NULL"
    THEN NoGenius
    ELSE [url |-> BestHit(cands, k).url, title |-> BestHit(cands, k).title,
          artist |-> BestHit(cands, k).artist]

\* a judge that is asked even about an empty candidate list
AlwaysAskJudge(ch) == TRUE

\* "if not candidate_hits: return None" decides whether the judge is asked
AskJudge(ch) == ch # <<>>

\* lines 90-94: the loop is over; without candidates search_and_judge
\* returns None, otherwise candidates = list(candidate_hits.values())
SearchEnd ==
    /\ pc = "search"
    /\ pending = {}
    /\ candidates' = candidate_hits
    /\ pc' = IF AskJudge(candidate_hits) THEN "judge" ELSE "judged"
    /\ searchLog' = <<>>
    /\ last_seen' = {}
    /\ UNCHANGED <<init_failure, sp, gemini_model, page_kind,
                   form_message, message, enhanced_query,
                   pending, cur, candidate_hits, lastReply, best_index,
                   genius_data, lyrics, payload, calls>>

\* lines 124-141: the judge; with gemini_model None the call itself raises
\* AttributeError and nothing is sent
Judge ==
    /\ pc = "judge"
    /\ IF gemini_model = None
       THEN /\ lastReply' = [raises |-> TRUE, text |-> <<>>]
            /\ best_index' = 0
            /\ genius_data' = NoGenius
            /\ calls' = calls
            /\ pc' = Continue("judge", TRUE, "judged")
       ELSE \E o \in JudgeOutcomes :
            /\ calls' = Append(calls, Call("gemini_judge", <<>>))
            /\ lastReply' = o
            /\ best_index' = JudgeIndex(o, Len(candidates))
            /\ genius_data' = SelectedData(candidates, best_index')
            /\ pc' = Continue("judge", JudgeRaises(o, candidates), "judged")
    /\ UNCHANGED <<init_failure, sp, gemini_model, page_kind,
                   form_message, message, enhanced_query,
                   pending, cur, candidate_hits, last_seen, searchLog,
                   candidates, lyrics, payload>>

(* ---------------- handle_chat, after search_and_judge ---------------- *)

\* "if not genius_data: return error".  search_and_judge has returned: its
\* reply and its dict are gone, the list and the index it chose are kept to
\* compare the answer with.
HandleChatVerdict ==
    /\ pc = "judged"
    /\ IF genius_data = NoGenius
       THEN /\ payload' = ErrorPayload(SorryFor(message))
            /\ pc' = "done"
       ELSE /\ payload' = payload
            /\ pc' = "scrape"
    /\ lastReply' = NoReply
    /\ candidate_hits' = <<>>
    /\ UNCHANGED <<init_failure, sp, gemini_model, page_kind,
                   form_message, message, enhanced_query,
                   pending, cur, last_seen, searchLog, best_index, genius_data,
                   candidates, lyrics, calls>>

(* ---------------- scrape_lyrics ---------------- *)

\* The markup of the lyrics containers, one character per element; "B" is a
\* whole <br/> tag.
HtmlAlphabet == {"<", ">", "[", "]", "x", " ", "B"}

DivOpen  == <<"<", "x", ">">>
DivClose == <<"<", "x", ">">>

\* what the page fetch can give: an exception, a page where no selector
\* matches, or containers with some inner markup
PageOutcomes ==
    {[kind |-> "raises", inner |-> <<>>], [kind |-> "no_container", inner |-> <<>>]}
    \cup {[kind |-> "containers", inner |-> h] : h \in SeqsUpTo(HtmlAlphabet, MaxHtml)}

\* re.sub(r'<br\s*/?>', '\n', s)
BrToNewline(s) == [i \in 1..Len(s) |-> IF s[i] = "B" THEN "\n" ELSE s[i]]

\* the end of the shortest match of open .*? close that starts at s[1], or 0:
\* "." does not match a newline
RECURSIVE MatchEnd(_, _, _)
MatchEnd(s, i, close) ==
    IF i > Len(s) THEN 0
    ELSE IF s[i] = close THEN i
    ELSE IF s[i] = "\n" THEN 0
    ELSE MatchEnd(s, i + 1, close)

\* re.sub(open + r'.*?' + close, '', s)
RECURSIVE RemoveSpans(_, _, _)
RemoveSpans(s, open, close) ==
    IF s = <<>> THEN <<>>
    ELSE IF Head(s) = open /\ MatchEnd(s, 2, close) # 0
    THEN RemoveSpans(SubSeq(s, MatchEnd(s, 2, close) + 1, Len(s)), open, close)
    ELSE <<Head(s)>> \o RemoveSpans(Tail(s), open, close)

\* lines 172-176
CleanLyrics(html) ==
    Strip(RemoveSpans(RemoveSpans(BrToNewline(html), "<", ">"), "[", "]"))

CouldNotScrape  == <<"Lyrics could not be scraped. The page structure may have changed.">>
CouldNotRetrieve == <<"Could not retrieve lyrics.">>
LyricsUnavailable == <<"Lyrics unavailable.">>

\* the return value of scrape_lyrics
ScrapeResult(page) ==
    CASE page.kind = "raises" -> CouldNotRetrieve
      [] page.kind = "no_container" -> CouldNotScrape
      [] OTHER -> CleanLyrics(DivOpen \o page.inner \o DivClose)

ScrapeLyrics ==
    /\ pc = "scrape"
    /\ \E page \in PageOutcomes :
          /\ page_kind' = page.kind
          /\ lyrics' = ScrapeResult(page)
          /\ pc' = Continue("scrape", page.kind = "raises", "spotify")
    /\ calls' = Append(calls, Call("scrape", <<genius_data.url>>))
    /\ UNCHANGED <<init_failure, sp, gemini_model, form_message, message, enhanced_query,
                   pending, cur, candidate_hits, last_seen, searchLog, lastReply,
                   best_index, genius_data, candidates, payload>>

(* ---------------- search_spotify_track and the answer ---------------- *)

\* what sp.search can do
SpotifyOutcomes == {"raises", "no_tracks", "track"}

\* spotify_data.get('spotify_url')
SpotifyUrl(outcome) == IF outcome = "track" THEN "spotify_url" ELSE None

\* the content field without its fallback
ContentRaw(text) == text

\* lyrics or 'Lyrics unavailable.'
Content(text) == IF text = <<>> THEN LyricsUnavailable ELSE text

\* lines 222-233
SearchSpotifyAndAnswer ==
    /\ pc = "spotify"
    /\ \E o \in (IF sp = None THEN {"not_called"} ELSE SpotifyOutcomes) :
          /\ calls' = IF sp = None THEN calls
                      ELSE Append(calls, Call("spotify_search", <<genius_data.title>>))
          /\ payload' = [type |-> "lyrics", title |-> genius_data.title,
                         artist |-> genius_data.artist, content |-> Content(lyrics),
                         spotify_url |-> SpotifyUrl(o)]
          /\ pc' = Continue("spotify", o = "raises", "done")
    /\ UNCHANGED <<init_failure, sp, gemini_model, page_kind,
                   form_message, message, enhanced_query,
                   pending, cur, candidate_hits, last_seen, searchLog, lastReply,
                   best_index, genius_data, candidates, lyrics>>

\* the server takes the next request; nothing of the last one is kept
NextRequest ==
    /\ pc \in {"done", "crashed"}
    /\ pc' = "idle"
    /\ form_message' = <<>>
    /\ message' = <<>>
    /\ enhanced_query' = <<>>
    /\ pending' = {}
    /\ cur' = NoTerm
    /\ candidate_hits' = <<>>
    /\ last_seen' = {}
    /\ searchLog' = <<>>
    /\ lastReply' = NoReply
    /\ best_index' = 0
    /\ genius_data' = NoGenius
    /\ candidates' = <<>>
    /\ page_kind' = "none"
    /\ lyrics' = <<>>
    /\ payload' = NoPayload
    /\ calls' = <<>>
    /\ UNCHANGED <<init_failure, sp, gemini_model>>

Next ==
    \/ HandleChatBegin
    \/ GetEnhancedQuery
    \/ SearchBegin
    \/ SearchRequest
    \/ SearchHit
    \/ SearchHitsEnd
    \/ SearchEnd
    \/ Judge
    \/ HandleChatVerdict
    \/ ScrapeLyrics
    \/ SearchSpotifyAndAnswer
    \/ NextRequest

Spec == Init /\ [][Next]_vars

(* ======================= the claims ======================= *)

InRequest == pc \notin {"idle", "crashed"}
AfterEnhance == pc \notin {"idle", "enhance", "crashed"}
LoopOver == pc = "search" /\ pending = {}

UrlsOf(ch) == {ch[i].url : i \in 1..Len(ch)}
DataOf(res) == [url |-> res.url, title |-> res.title, artist |-> res.artist]

\* the index a reply names: the value of best_match_index when the cleaned
\* text is one JSON object whose best_match_index is an integer within
\* 1..n, and 0 for every other reply
NamedIndex(outcome, n) ==
    IF outcome.raises THEN 0
    ELSE LET cleaned == CleanedText(outcome.text) IN
         IF Len(cleaned) # 1 THEN 0
         ELSE IF cleaned[1].kind = "int" /\ 1 <= cleaned[1].v /\ cleaned[1].v <= n
              THEN cleaned[1].v ELSE 0

\* C1: whatever the model replies, the judge returns either None or the
\* candidate at the integer index 1..len(candidates) that the reply names; a
\* malformed or out-of-range reply never selects a candidate.
C1_JudgeSelectsOnlyNamedIndex ==
    (pc = "judged" /\ genius_data # NoGenius) =>
        /\ NamedIndex(lastReply, Len(candidates)) # 0
        /\ genius_data = DataOf(candidates[NamedIndex(lastReply, Len(candidates))])

\* C2: for a non-empty message and any outcome of the model call, the
\* enhanced query is a non-empty string.
C2_EnhancedNeverEmpty ==
    (AfterEnhance /\ message # <<>>) => enhanced_query # <<>>

IsBlank(m) == \A i \in 1..Len(m) : m[i] = " "

\* C3: a message that is empty or only whitespace gets the error payload, and
\* no external client is called during the request.
C3_BlankRejectedBeforeAnyCall ==
    (InRequest /\ IsBlank(form_message)) =>
        /\ pc = "done"
        /\ payload = ErrorPayload(PleaseEnter)
        /\ calls = <<>>

C3_Witness ==
    pc = "done" /\ form_message = <<" ">> /\ payload.type = "error" /\ calls = <<>>

\* the admissible results of a term: the songs with a URL among the first
\* five entries of its response, and none for a term that failed
AdmissibleOf(rec) == IF rec.failed THEN {} ELSE rec.offered

\* C4: after the search loop, the candidate set is empty exactly when every
\* search term yielded no admissible result.
C4_EmptyIffNoAdmissible ==
    LoopOver =>
        (candidate_hits = <<>>
            <=> \A i \in 1..Len(searchLog) : AdmissibleOf(searchLog[i]) = {})

\* C5: the candidate list holds at most one entry per URL; a URL that was
\* admitted, however often and from whichever search, appears exactly once,
\* with the values of its last-seen occurrence.
C5_OneEntryPerUrlLastSeenWins ==
    /\ \A i, j \in 1..Len(candidates) :
          candidates[i].url = candidates[j].url => i = j
    /\ pc \in {"search", "hits"} =>
          /\ \A i, j \in 1..Len(candidate_hits) :
                candidate_hits[i].url = candidate_hits[j].url => i = j
          /\ \A r \in last_seen : \E i \in 1..Len(candidate_hits) : candidate_hits[i] = r
          /\ \A i \in 1..Len(candidate_hits) : candidate_hits[i] \in last_seen
          /\ \A i \in 1..Len(searchLog) : searchLog[i].admitted \subseteq UrlsOf(candidate_hits)

C5_Witness ==
    /\ LoopOver
    /\ Len(searchLog) = 2
    /\ "u1" \in searchLog[1].admitted /\ "u1" \in searchLog[2].admitted
    /\ candidate_hits = <<[url |-> "u1", title |-> "t2", artist |-> "B"]>>

\* C6: a term whose handling fails contributes no candidate, and the other
\* term is still searched and its admissible results are admitted.
C6_FailingTermIsolated ==
    LoopOver =>
        /\ \A t \in SearchTerms(message, enhanced_query) \ {<<>>} :
              Cardinality({i \in 1..Len(searchLog) : searchLog[i].term = t}) = 1
        /\ \A i \in 1..Len(searchLog) :
              /\ searchLog[i].failed => searchLog[i].admitted = {}
              /\ ~searchLog[i].failed =>
                    searchLog[i].offered \subseteq UrlsOf(candidate_hits)

ScraperFailed ==
    \/ page_kind \in {"raises", "no_container"}
    \/ page_kind = "containers" /\ lyrics = <<>>

\* C8: when a candidate was selected and the scraper fails, the answer is
\* still the success payload of that candidate, and its content is a
\* non-empty placeholder.
C8_ScraperFailureGivesPlaceholder ==
    (pc = "done" /\ ScraperFailed) =>
        /\ payload.type = "lyrics"
        /\ payload.title = genius_data.title /\ payload.artist = genius_data.artist
        /\ payload.content \in {CouldNotRetrieve, CouldNotScrape, LyricsUnavailable}
        /\ payload.content # <<>>
        /\ page_kind = "raises" => payload.content = CouldNotRetrieve
        /\ page_kind = "no_container" => payload.content = CouldNotScrape
        /\ page_kind = "containers" => payload.content = LyricsUnavailable

C8_Witness ==
    /\ pc = "done"
    /\ page_kind = "containers" /\ lyrics = <<>>
    /\ payload.type = "lyrics" /\ payload.content = LyricsUnavailable

Rank(svc) ==
    CASE svc = "gemini_enhance" -> 1
      [] svc = "genius_search" -> 2
      [] svc = "gemini_judge" -> 3
      [] svc = "scrape" -> 4
      [] svc = "spotify_search" -> 5

Called(svc) == {i \in 1..Len(calls) : calls[i].svc = svc}

\* C9: the calls of one request come in stage order and none is repeated:
\* the enhancement call first, then at most one search per distinct term
\* (exactly one when the two strings are equal), then at most one judge call
\* and none without candidates, and the scraper and the track lookup only
\* after a candidate was selected.
C9_StrictStageOrder ==
    /\ \A i, j \in 1..Len(calls) :
          i < j => /\ Rank(calls[i].svc) <= Rank(calls[j].svc)
                   /\ Rank(calls[i].svc) = Rank(calls[j].svc) =>
                         /\ calls[i].svc = "genius_search"
                         /\ calls[i].term # calls[j].term
    /\ Called("gemini_enhance") # {} => AfterEnhance
    /\ Called("genius_search") # {} =>
          /\ pc \notin {"idle", "enhance", "search_begin"}
          /\ gemini_model # None => Called("gemini_enhance") # {}
          /\ \A i \in Called("genius_search") :
                calls[i].term \in {message, enhanced_query} \ {<<>>}
    /\ (pc \in {"judge", "judged", "scrape", "spotify", "done"} /\ message # <<>>
          /\ message = enhanced_query) => Cardinality(Called("genius_search")) = 1
    /\ Called("gemini_judge") # {} =>
          /\ candidates # <<>>
          /\ pending = {} /\ cur = NoTerm
          /\ pc \in {"judged", "scrape", "spotify", "done"}
    /\ (pc \in {"judged", "scrape", "spotify", "done"} /\ candidates = <<>>) =>
          Called("gemini_judge") = {}
    /\ (Called("scrape") # {} \/ Called("spotify_search") # {}) =>
          /\ genius_data # NoGenius
          /\ Called("gemini_judge") # {}
          /\ pc \in {"spotify", "done"}
    /\ (pc = "done" /\ payload.type = "error") =>
          Called("scrape") = {} /\ Called("spotify_search") = {}

C9_Witness ==
    /\ pc = "done"
    /\ Len(calls) = 6
    /\ calls[1].svc = "gemini_enhance"
    /\ calls[2].svc = "genius_search" /\ calls[3].svc = "genius_search"
    /\ calls[4].svc = "gemini_judge"
    /\ calls[5].svc = "scrape" /\ calls[6].svc = "spotify_search"

\* C10: a failure initialising either client leaves both handles None; every
\* non-blank request then has its enhanced query equal to the message and its
\* judge step failing, and ends in the "no confident match" error payload
\* whatever the searches return.
C10_InitFailureDisablesEveryRequest ==
    init_failure # "none" =>
        /\ sp = None /\ gemini_model = None
        /\ (AfterEnhance /\ message # <<>>) => enhanced_query = message
        /\ genius_data = NoGenius
        /\ payload.type # "lyrics"
        /\ (pc = "done" /\ message # <<>>) => payload = ErrorPayload(SorryFor(message))
        /\ pc \notin {"scrape", "spotify"}

C10_Witness ==
    /\ init_failure = "spotify"
    /\ pc = "done"
    /\ Len(candidates) = 2
    /\ payload = ErrorPayload(SorryFor(message))

====
